---- MODULE Spec2Model ----
(***************************************************************************)
(* Model of the Azure Service Management client (package management:      *)
(* client construction and long-running-operation polling) and of the     *)
(* generated Logic WorkflowRunsClient (package logic).                     *)
(***************************************************************************)
EXTENDS Integers, Sequences, FiniteSets, TLC

VARIABLES
    httpClients,  \* heap of http.Client values, indexed by handle (pointer)
    clients,      \* the management clients constructed so far, in order
    last,         \* arguments and results of the latest constructor call
    ncalls,       \* number of constructor calls made
    waitClient,   \* the client the WaitForOperation calls run on
    polls,        \* the WaitForOperation calls in progress, one per operation ID
    now,          \* the clock, in the unit of OperationPollInterval
    runsLast,     \* the latest WorkflowRunsClient operation and what it returned
    wire          \* requests prepared, sent and responded to so far

vars == <<httpClients, clients, last, ncalls, waitClient, polls, now, runsLast, wire>>

constructionVars == <<httpClients, clients, last, ncalls>>

waitVars == <<waitClient, polls, now>>

runsVars == <<runsLast, wire>>

(***************************************************************************)
(* Bounds                                                                  *)
(***************************************************************************)
MaxCalls == 2

\* the most InProgress answers an operation gives before its final status
MaxInProgress == 2

\* the clock stops here
MaxTime == 4

\* the most WorkflowRunsClient operations in a run
MaxOps == 3

(***************************************************************************)
(* Constants of package management                                         *)
(***************************************************************************)
DefaultAzureManagementURL == "https://management.core.windows.net"

\* time.Second * 30; durations are counted in seconds
DefaultOperationPollInterval == 30

DefaultAPIVersion == "2014-10-01"

DefaultUserAgent == "azure-sdk-for-go"

\* error == nil
NoError == ""

\* a nil *http.Client
NilHandle == 0

\* a nil Client interface value
NilClient == [isNil |-> TRUE]

(***************************************************************************)
(* Input domains                                                           *)
(***************************************************************************)
SubscriptionIDs == {"", "sub-1"}

\* management certificates: empty, non-empty bytes that are no PEM key pair,
\* and two PEM files holding a certificate and its private key
ManagementCerts == {"", "garbage", "pemA", "pemB"}

ManagementURLs == {"", DefaultAzureManagementURL}

PollIntervals == {-1, 0, 5}

APIVersions == {"", DefaultAPIVersion}

UserAgents == {"", "custom-agent"}

\* the caller's http.Client values: handle 1 has an *http.Transport, handle 2
\* a custom RoundTripper offering InjectCert
CallerHandles == {1, 2}

ClientConfigs ==
    [ManagementURL : ManagementURLs,
     OperationPollInterval : PollIntervals,
     UserAgent : UserAgents,
     APIVersion : APIVersions,
     Client : {NilHandle} \cup CallerHandles]

(***************************************************************************)
(* crypto/tls and net/http                                                 *)
(***************************************************************************)
\* tls.X509KeyPair(certPEMBlock, keyPEMBlock): fails unless both blocks parse
\* and match; the parsed certificate is identified by its PEM
X509KeyPair(certPEMBlock, keyPEMBlock) ==
    IF certPEMBlock \in {"pemA", "pemB"} /\ keyPEMBlock = certPEMBlock
    THEN [cert |-> certPEMBlock, err |-> NoError]
    ELSE [cert |-> "", err |-> "tls: failed to find any PEM data in certificate input"]

\* &http.Client{Transport: &http.Transport{Proxy: http.ProxyFromEnvironment}}
NewHTTPClient ==
    [Transport |-> "*http.Transport", TLSClientConfig |-> "", Injected |-> ""]

\* the certificate a request sent through http.Client h carries
PresentedCert(h) ==
    IF h.Transport = "*http.Transport" THEN h.TLSClientConfig ELSE h.Injected

(***************************************************************************)
(* Construction                                                            *)
(***************************************************************************)
DefaultConfig ==
    [ManagementURL |-> DefaultAzureManagementURL,
     OperationPollInterval |-> DefaultOperationPollInterval,
     APIVersion |-> DefaultAPIVersion,
     UserAgent |-> DefaultUserAgent,
     Client |-> NilHandle]

\* the validation switch of makeClient: the error of the first failing case
ValidateConfig_ZeroInterval(config) ==
    IF config.ManagementURL = "" THEN "azure: base URL required"
    ELSE IF config.OperationPollInterval < 0
    THEN "azure: operation polling interval must be a positive duration"
    ELSE IF config.APIVersion = ""
    THEN "azure: client configuration must specify an API version"
    ELSE NoError

ValidateConfig(config) ==
    IF config.ManagementURL = "" THEN "azure: base URL required"
    ELSE IF config.OperationPollInterval <= 0
    THEN "azure: operation polling interval must be a positive duration"
    ELSE IF config.APIVersion = ""
    THEN "azure: client configuration must specify an API version"
    ELSE NoError

\* the last case of the switch, reached when no earlier case matched
WithUserAgent_Keep(config) == config

WithUserAgent(config) ==
    IF config.UserAgent = ""
    THEN [config EXCEPT !.UserAgent = DefaultUserAgent]
    ELSE config

\* the type switch on c.Transport
InjectCertificate(heap, c, cert) ==
    IF heap[c].Transport = "*http.Transport"
    THEN [heap EXCEPT ![c].TLSClientConfig = cert]
    ELSE heap   \* case http.Flusher: the InjectCert call is commented out

Failure(err, heap) == [client |-> NilClient, err |-> err, heap |-> heap]

makeClient_InjectFirst(subscriptionID, managementCert, config, heap) ==
    LET heap0 == IF config.Client # NilHandle
                 THEN InjectCertificate(heap, config.Client, managementCert)
                 ELSE heap
    IN
    IF subscriptionID = "" THEN Failure("azure: subscription ID required", heap0)
    ELSE IF managementCert = ""
    THEN Failure("azure: management certificate required", heap0)
    ELSE IF ValidateConfig(config) # NoError
    THEN Failure(ValidateConfig(config), heap0)
    ELSE LET kp == X509KeyPair(managementCert, managementCert) IN
         IF kp.err # NoError THEN Failure(kp.err, heap0)
         ELSE LET heap1 == IF config.Client = NilHandle
                           THEN Append(heap0, NewHTTPClient) ELSE heap0
                  c == IF config.Client = NilHandle THEN Len(heap0) + 1
                       ELSE config.Client
              IN [client |-> [isNil |-> FALSE,
                              publishSettings |->
                                  [SubscriptionID |-> subscriptionID,
                                   SubscriptionCert |-> managementCert,
                                   SubscriptionKey |-> managementCert],
                              config |-> WithUserAgent(config),
                              client |-> c],
                  err |-> NoError,
                  heap |-> InjectCertificate(heap1, c, kp.cert)]

makeClient(subscriptionID, managementCert, config, heap) ==
    IF subscriptionID = "" THEN Failure("azure: subscription ID required", heap)
    ELSE IF managementCert = ""
    THEN Failure("azure: management certificate required", heap)
    ELSE
    LET publishSettings == [SubscriptionID |-> subscriptionID,
                            SubscriptionCert |-> managementCert,
                            SubscriptionKey |-> managementCert]
    IN
    IF ValidateConfig(config) # NoError
    THEN Failure(ValidateConfig(config), heap)
    ELSE
    LET cfg == WithUserAgent(config)
        kp == X509KeyPair(publishSettings.SubscriptionCert,
                          publishSettings.SubscriptionKey)
    IN
    IF kp.err # NoError THEN Failure(kp.err, heap)
    ELSE
    LET heap1 == IF cfg.Client = NilHandle
                 THEN Append(heap, NewHTTPClient) ELSE heap
        c == IF cfg.Client = NilHandle THEN Len(heap) + 1 ELSE cfg.Client
    IN [client |-> [isNil |-> FALSE,
                    publishSettings |-> publishSettings,
                    config |-> cfg,
                    client |-> c],
        err |-> NoError,
        heap |-> InjectCertificate(heap1, c, kp.cert)]

NewClientFromConfig(subscriptionID, managementCert, config, heap) ==
    makeClient(subscriptionID, managementCert, config, heap)

NewClient(subscriptionID, managementCert, heap) ==
    NewClientFromConfig(subscriptionID, managementCert, DefaultConfig, heap)

(***************************************************************************)
(* State machine of construction: a caller holding two http.Client values  *)
(* constructs clients one after another.                                   *)
(***************************************************************************)
NoCall ==
    [op |-> "none", subscriptionID |-> "", managementCert |-> "",
     config |-> DefaultConfig, client |-> NilClient, err |-> NoError]

InitConstruction ==
    /\ httpClients =
         <<[Transport |-> "*http.Transport", TLSClientConfig |-> "", Injected |-> ""],
           [Transport |-> "CertInjecter", TLSClientConfig |-> "", Injected |-> ""]>>
    /\ clients = <<>>
    /\ last = NoCall
    /\ ncalls = 0

Record(op, subscriptionID, managementCert, config, r) ==
    /\ ncalls' = ncalls + 1
    /\ UNCHANGED waitVars
    /\ UNCHANGED runsVars
    /\ httpClients' = r.heap
    /\ clients' = IF r.client.isNil THEN clients ELSE Append(clients, r.client)
    /\ last' = [op |-> op, subscriptionID |-> subscriptionID,
                managementCert |-> managementCert, config |-> config,
                client |-> r.client, err |-> r.err]

CallNewClient ==
    /\ ncalls < MaxCalls
    /\ \E subscriptionID \in SubscriptionIDs, managementCert \in ManagementCerts :
         Record("NewClient", subscriptionID, managementCert, DefaultConfig,
                NewClient(subscriptionID, managementCert, httpClients))

CallNewClientFromConfig ==
    /\ ncalls < MaxCalls
    /\ \E subscriptionID \in SubscriptionIDs, managementCert \in ManagementCerts,
          config \in ClientConfigs :
         Record("NewClientFromConfig", subscriptionID, managementCert, config,
                NewClientFromConfig(subscriptionID, managementCert, config,
                                    httpClients))

(***************************************************************************)
(* Properties of construction                                              *)
(***************************************************************************)
Called == last.op # "none"

InvalidInput ==
    \/ last.subscriptionID = ""
    \/ last.managementCert = ""
    \/ last.config.ManagementURL = ""
    \/ last.config.OperationPollInterval <= 0
    \/ last.config.APIVersion = ""

ExpectedConfig ==
    IF last.config.UserAgent = ""
    THEN [last.config EXCEPT !.UserAgent = DefaultUserAgent]
    ELSE last.config

ConstructedAsGiven ==
    /\ last.err = NoError
    /\ ~last.client.isNil
    /\ last.client.config = ExpectedConfig

\* C2 as stated: NewClientFromConfig with a non-empty subscription ID, a
\* non-empty certificate and a valid configuration succeeds and stores the
\* input configuration, an empty UserAgent replaced by DefaultUserAgent.
C2_NonEmptyCertConstructs ==
    last.op = "NewClientFromConfig" /\ ~InvalidInput => ConstructedAsGiven

\* C2 amended: the same, for a certificate that tls.X509KeyPair accepts as
\* both the certificate and the key block.
C2_ParsedCertConstructs ==
    /\ last.op = "NewClientFromConfig"
    /\ ~InvalidInput
    /\ X509KeyPair(last.managementCert, last.managementCert).err = NoError
    => ConstructedAsGiven

C2_Witness ==
    /\ last.op = "NewClientFromConfig"
    /\ ~InvalidInput
    /\ last.managementCert = "pemB"
    /\ last.config.UserAgent = ""
    /\ last.config.Client = 1
    /\ ~last.client.isNil
    /\ last.client.config.UserAgent = DefaultUserAgent

\* C3: a zero-valued ManagementURL, OperationPollInterval or APIVersion of the
\* configuration passed to NewClientFromConfig is replaced by its default and
\* construction proceeds with the defaulted configuration.
C3_ZeroValuesDefaulted ==
    /\ last.op = "NewClientFromConfig"
    /\ last.subscriptionID # ""
    /\ X509KeyPair(last.managementCert, last.managementCert).err = NoError
    /\ last.config.OperationPollInterval >= 0
    => /\ last.err = NoError
       /\ ~last.client.isNil
       /\ last.client.config.ManagementURL =
            (IF last.config.ManagementURL = "" THEN DefaultAzureManagementURL
             ELSE last.config.ManagementURL)
       /\ last.client.config.OperationPollInterval =
            (IF last.config.OperationPollInterval = 0
             THEN DefaultOperationPollInterval
             ELSE last.config.OperationPollInterval)
       /\ last.client.config.APIVersion =
            (IF last.config.APIVersion = "" THEN DefaultAPIVersion
             ELSE last.config.APIVersion)

\* the certificate the requests of the k-th constructed client carry, given
\* the heap of http.Client values
ClientCert(heap, k) == PresentedCert(heap[clients[k].client])

\* C4: no operation changes the certificate of a client constructed earlier,
\* the construction of another client on the same http.Client included.
C4_CertNeverChanged ==
    [][\A k \in DOMAIN clients :
          ClientCert(httpClients', k) = ClientCert(httpClients, k)]_vars

\* C5: a client constructed on a non-nil config.Client sends its requests with
\* the management certificate, whether the Transport is an *http.Transport or
\* offers InjectCert.
C5_CertInjected ==
    Called /\ last.err = NoError /\ last.config.Client # NilHandle
    => PresentedCert(httpClients[last.client.client]) = last.managementCert

\* C9: a constructor call that returns an error leaves every http.Client of
\* the caller, its Transport's TLS configuration included, and the clients
\* constructed so far as they were.
C9_FailureHasNoEffect ==
    [][ncalls' # ncalls /\ last'.err # NoError
       => httpClients' = httpClients /\ clients' = clients]_vars

C9_Witness ==
    /\ last.op = "NewClientFromConfig"
    /\ last.err # NoError
    /\ last.subscriptionID # "" /\ last.managementCert = "garbage"
    /\ ValidateConfig(last.config) = NoError
    /\ last.config.Client = 1
    /\ httpClients[1].TLSClientConfig = "pemA"

(***************************************************************************)
(* The parts of the state at rest                                          *)
(***************************************************************************)
\* the concurrent WaitForOperation calls
Calls == {1, 2}

IdlePoll ==
    [operationID |-> "", inProgress |-> 0, final |-> "Succeeded", cancel |-> "nil",
     pc |-> "idle", queries |-> 0, lastQueryAt |-> 0, err |-> NoError]

WaitIdle ==
    /\ waitClient = NilClient
    /\ polls = [i \in Calls |-> IdlePoll]
    /\ now = 0

(***************************************************************************)
(* WorkflowRunsClient (package logic): Cancel, Get and List.  What          *)
(* autorest.Prepare, client.Send and autorest.Respond return is an input.   *)
(***************************************************************************)
\* a nil error of autorest
NilError == [PackageType |-> "", Method |-> "", Message |-> ""]

\* autorest.NewErrorWithError(err, packageType, method, message)
NewErrorWithError(packageType, method, message) ==
    [PackageType |-> packageType, Method |-> method, Message |-> message]

\* the *http.Response a failing Sender hands back with its error
SendResponses == {"nil", "response"}

Cancel_RespondsAfterSendFailure(prepareErr, sendErr, sendResp, respondErr) ==
    IF prepareErr
    THEN [calls |-> <<"CancelPreparer">>, response |-> "nil",
          ae |-> NewErrorWithError("logic/WorkflowRunsClient", "Cancel",
                                   "Failure preparing request")]
    ELSE [calls |-> <<"CancelPreparer", "CancelSender", "CancelResponder">>,
          response |-> "response",
          ae |-> IF sendErr \/ respondErr
                 THEN NewErrorWithError("logic/WorkflowRunsClient", "Cancel",
                                        "Failure responding to request")
                 ELSE NilError]

Cancel(prepareErr, sendErr, sendResp, respondErr) ==
    IF prepareErr
    THEN [calls |-> <<"CancelPreparer">>, response |-> "nil",
          ae |-> NewErrorWithError("logic/WorkflowRunsClient", "Cancel",
                                   "Failure preparing request")]
    ELSE IF sendErr
    THEN [calls |-> <<"CancelPreparer", "CancelSender">>, response |-> sendResp,
          ae |-> NewErrorWithError("logic/WorkflowRunsClient", "Cancel",
                                   "Failure sending request")]
    ELSE [calls |-> <<"CancelPreparer", "CancelSender", "CancelResponder">>,
          response |-> "response",
          ae |-> IF respondErr
                 THEN NewErrorWithError("logic/WorkflowRunsClient", "Cancel",
                                        "Failure responding to request")
                 ELSE NilError]

Get(prepareErr, sendErr, sendResp, respondErr) ==
    IF prepareErr
    THEN [calls |-> <<"GetPreparer">>, response |-> "nil",
          ae |-> NewErrorWithError("logic/WorkflowRunsClient", "Get",
                                   "Failure preparing request")]
    ELSE IF sendErr
    THEN [calls |-> <<"GetPreparer", "GetSender">>, response |-> sendResp,
          ae |-> NewErrorWithError("logic/WorkflowRunsClient", "Get",
                                   "Failure sending request")]
    ELSE [calls |-> <<"GetPreparer", "GetSender", "GetResponder">>,
          response |-> "response",
          ae |-> IF respondErr
                 THEN NewErrorWithError("logic/WorkflowRunsClient", "Get",
                                        "Failure responding to request")
                 ELSE NilError]

List(prepareErr, sendErr, sendResp, respondErr) ==
    IF prepareErr
    THEN [calls |-> <<"ListPreparer">>, response |-> "nil",
          ae |-> NewErrorWithError("logic/WorkflowRunsClient", "List",
                                   "Failure preparing request")]
    ELSE IF sendErr
    THEN [calls |-> <<"ListPreparer", "ListSender">>, response |-> sendResp,
          ae |-> NewErrorWithError("logic/WorkflowRunsClient", "List",
                                   "Failure sending request")]
    ELSE [calls |-> <<"ListPreparer", "ListSender", "ListResponder">>,
          response |-> "response",
          ae |-> IF respondErr
                 THEN NewErrorWithError("logic/WorkflowRunsClient", "List",
                                        "Failure responding to request")
                 ELSE NilError]

NoOperation ==
    [method |-> "none", prepareErr |-> FALSE, sendErr |-> FALSE,
     respondErr |-> FALSE, calls |-> <<>>, response |-> "nil", ae |-> NilError]

RunsIdle ==
    /\ runsLast = NoOperation
    /\ wire = [operations |-> 0, prepared |-> 0, sent |-> 0, responded |-> 0]

\* the effect of one operation: what it returned, and the phases it ran
Ran(method, prepareErr, sendErr, respondErr, r) ==
    /\ runsLast' = [method |-> method, prepareErr |-> prepareErr,
                    sendErr |-> sendErr, respondErr |-> respondErr,
                    calls |-> r.calls, response |-> r.response, ae |-> r.ae]
    /\ wire' = [operations |-> wire.operations + 1,
                prepared |-> wire.prepared + 1,
                sent |-> wire.sent + (IF Len(r.calls) >= 2 THEN 1 ELSE 0),
                responded |-> wire.responded + (IF Len(r.calls) >= 3 THEN 1 ELSE 0)]
    /\ UNCHANGED constructionVars
    /\ UNCHANGED waitVars

CallCancel ==
    /\ wire.operations < MaxOps
    /\ \E prepareErr \in BOOLEAN, sendErr \in BOOLEAN, respondErr \in BOOLEAN,
          sendResp \in SendResponses :
         Ran("Cancel", prepareErr, sendErr, respondErr,
             Cancel(prepareErr, sendErr, sendResp, respondErr))

CallGet ==
    /\ wire.operations < MaxOps
    /\ \E prepareErr \in BOOLEAN, sendErr \in BOOLEAN, respondErr \in BOOLEAN,
          sendResp \in SendResponses :
         Ran("Get", prepareErr, sendErr, respondErr,
             Get(prepareErr, sendErr, sendResp, respondErr))

CallList ==
    /\ wire.operations < MaxOps
    /\ \E prepareErr \in BOOLEAN, sendErr \in BOOLEAN, respondErr \in BOOLEAN,
          sendResp \in SendResponses :
         Ran("List", prepareErr, sendErr, respondErr,
             List(prepareErr, sendErr, sendResp, respondErr))

InitRuns == InitConstruction /\ WaitIdle /\ RunsIdle

NextRuns == CallCancel \/ CallGet \/ CallList

SpecRuns == InitRuns /\ [][NextRuns]_vars

(***************************************************************************)
(* Properties of the WorkflowRunsClient operations                         *)
(***************************************************************************)
\* the phases of an operation, by the name of the function that runs each
Preparer(method) ==
    IF method = "Cancel" THEN "CancelPreparer"
    ELSE IF method = "Get" THEN "GetPreparer" ELSE "ListPreparer"

Sender(method) ==
    IF method = "Cancel" THEN "CancelSender"
    ELSE IF method = "Get" THEN "GetSender" ELSE "ListSender"

Responder(method) ==
    IF method = "Cancel" THEN "CancelResponder"
    ELSE IF method = "Get" THEN "GetResponder" ELSE "ListResponder"

\* C10: Cancel, Get and List run prepare, send, respond in that order and stop
\* at the first phase that fails: no send after a failed prepare, no respond
\* after a failed send; the error names the operation and the failed phase,
\* and is nil when no phase fails.
C10_PhasesInOrder ==
    LET m == runsLast.method IN
    m # "none" =>
      /\ runsLast.prepareErr
         => /\ runsLast.calls = <<Preparer(m)>>
            /\ runsLast.ae = [PackageType |-> "logic/WorkflowRunsClient",
                              Method |-> m,
                              Message |-> "Failure preparing request"]
      /\ ~runsLast.prepareErr /\ runsLast.sendErr
         => /\ runsLast.calls = <<Preparer(m), Sender(m)>>
            /\ runsLast.ae = [PackageType |-> "logic/WorkflowRunsClient",
                              Method |-> m,
                              Message |-> "Failure sending request"]
      /\ ~runsLast.prepareErr /\ ~runsLast.sendErr /\ runsLast.respondErr
         => /\ runsLast.calls = <<Preparer(m), Sender(m), Responder(m)>>
            /\ runsLast.ae = [PackageType |-> "logic/WorkflowRunsClient",
                              Method |-> m,
                              Message |-> "Failure responding to request"]
      /\ ~runsLast.prepareErr /\ ~runsLast.sendErr /\ ~runsLast.respondErr
         => /\ runsLast.calls = <<Preparer(m), Sender(m), Responder(m)>>
            /\ runsLast.ae = NilError

C10_Witness ==
    /\ runsLast.method = "Cancel"
    /\ ~runsLast.prepareErr /\ runsLast.sendErr /\ runsLast.respondErr
    /\ runsLast.calls = <<"CancelPreparer", "CancelSender">>
    /\ runsLast.ae.Message = "Failure sending request"
    /\ wire.operations = 3 /\ wire.sent = 2 /\ wire.responded = 1

(***************************************************************************)
(* Long-running operations: GetOperationStatus and WaitForOperation.       *)
(* Two calls of WaitForOperation run concurrently on one client, each for  *)
(* its own operation ID and with its own cancel channel.                   *)
(***************************************************************************)
WaitIntervals == {1, 2}

FinalStatuses == {"Succeeded", "Failed", "QueryError"}

\* the errors WaitForOperation returns
ErrOperationFailed == "azure: operation failed"

ErrPoll == "azure: could not get the operation status"

ErrOperationCancelled == "azure: operation polling cancelled"

\* the service's answer to the k-th status query of operation op: InProgress
\* op.inProgress times, then the final status (or a failing query)
GetOperationStatus(op, k) ==
    IF k <= op.inProgress THEN "InProgress" ELSE op.final

\* the call after a status query made at time t
AfterQuery(p, status, t) ==
    LET q == [p EXCEPT !.queries = p.queries + 1, !.lastQueryAt = t] IN
    IF status = "Succeeded" THEN [q EXCEPT !.pc = "done", !.err = NoError]
    ELSE IF status = "Failed" THEN [q EXCEPT !.pc = "done", !.err = ErrOperationFailed]
    ELSE IF status = "QueryError" THEN [q EXCEPT !.pc = "done", !.err = ErrPoll]
    ELSE [q EXCEPT !.pc = "wait"]

\* the interval timer of a waiting call has fired by time t
TimerFired_NoWait(p, t, config) == TRUE

TimerFired(p, t, config) == t >= p.lastQueryAt + config.OperationPollInterval

\* the cancel signal call i selects on is ready; a nil channel never is
CancelSignalled_Shared(ps, i) == \E j \in DOMAIN ps : ps[j].cancel = "closed"

CancelSignalled_NilReady(ps, i) == ps[i].cancel # "open"

CancelSignalled(ps, i) == ps[i].cancel = "closed"

OperationID(i) == IF i = 1 THEN "op-1" ELSE "op-2"

InitWait ==
    /\ InitConstruction
    /\ RunsIdle
    /\ \E d \in WaitIntervals :
         waitClient = NewClientFromConfig("sub-1", "pemA",
                          [DefaultConfig EXCEPT !.OperationPollInterval = d],
                          httpClients).client
    /\ polls \in [Calls -> [operationID : {"op-1", "op-2"},
                            inProgress : 0..MaxInProgress,
                            final : FinalStatuses,
                            cancel : {"nil", "open"},
                            pc : {"query"}, queries : {0}, lastQueryAt : {0},
                            err : {NoError}]]
    /\ \A i \in Calls : polls[i].operationID = OperationID(i)
    /\ now = 0

\* the loop queries the status of its operation
Query(i) ==
    /\ polls[i].pc = "query"
    /\ polls' = [polls EXCEPT ![i] =
                   AfterQuery(polls[i],
                              GetOperationStatus(polls[i], polls[i].queries + 1),
                              now)]
    /\ UNCHANGED <<waitClient, now>>
    /\ UNCHANGED constructionVars
    /\ UNCHANGED runsVars

\* select: the interval timer fires and the loop goes round
IntervalElapsed(i) ==
    /\ polls[i].pc = "wait"
    /\ TimerFired(polls[i], now, waitClient.config)
    /\ polls' = [polls EXCEPT ![i].pc = "query"]
    /\ UNCHANGED <<waitClient, now>>
    /\ UNCHANGED constructionVars
    /\ UNCHANGED runsVars

\* select: the cancel signal is received and the call returns
CancelObserved(i) ==
    /\ polls[i].pc = "wait"
    /\ CancelSignalled(polls, i)
    /\ polls' = [polls EXCEPT ![i].pc = "done", ![i].err = ErrOperationCancelled]
    /\ UNCHANGED <<waitClient, now>>
    /\ UNCHANGED constructionVars
    /\ UNCHANGED runsVars

\* the caller closes the cancel channel of call i
CloseCancel(i) ==
    /\ polls[i].cancel = "open"
    /\ polls' = [polls EXCEPT ![i].cancel = "closed"]
    /\ UNCHANGED <<waitClient, now>>
    /\ UNCHANGED constructionVars
    /\ UNCHANGED runsVars

Tick ==
    /\ now < MaxTime
    /\ now' = now + 1
    /\ UNCHANGED <<waitClient, polls>>
    /\ UNCHANGED constructionVars
    /\ UNCHANGED runsVars

NextWait ==
    \/ \E i \in Calls : Query(i)
    \/ \E i \in Calls : IntervalElapsed(i)
    \/ \E i \in Calls : CancelObserved(i)
    \/ \E i \in Calls : CloseCancel(i)
    \/ Tick

SpecWait == InitWait /\ [][NextWait]_vars

(***************************************************************************)
(* Properties of WaitForOperation                                          *)
(***************************************************************************)
Done(i) == polls[i].pc = "done"

Cancelled(i) == Done(i) /\ polls[i].err = ErrOperationCancelled

\* what WaitForOperation returns for the final status of an operation
FinalError(final) ==
    IF final = "Succeeded" THEN NoError
    ELSE IF final = "Failed" THEN ErrOperationFailed
    ELSE ErrPoll

\* C6: a call on an operation that answers InProgress N times and then
\* Succeeded returns nil after exactly N+1 status queries; consecutive queries
\* of a call are at least the configured poll interval apart; and a call that
\* has returned issues no further query.
C6_PollsUntilSucceeded ==
    /\ [](\A i \in Calls :
            Done(i) /\ polls[i].final = "Succeeded" /\ ~Cancelled(i)
            => polls[i].queries = polls[i].inProgress + 1 /\ polls[i].err = NoError)
    /\ [][\A i \in Calls :
            polls'[i].queries # polls[i].queries
            => /\ polls'[i].queries = polls[i].queries + 1
               /\ ~Done(i)
               /\ polls[i].queries >= 1
                  => now >= polls[i].lastQueryAt
                            + waitClient.config.OperationPollInterval]_vars

C6_Witness ==
    \E i \in Calls :
        /\ Done(i) /\ polls[i].err = NoError
        /\ polls[i].inProgress = 2 /\ polls[i].queries = 3
        /\ waitClient.config.OperationPollInterval = 2
        /\ now = 4

C8_CallsIndependent ==
    \A i \in Calls :
        Done(i) /\ polls[i].cancel # "closed"
        => /\ polls[i].err = FinalError(polls[i].final)
           /\ polls[i].queries = polls[i].inProgress + 1

C8_Witness ==
    /\ Cancelled(1) /\ polls[1].inProgress = 2 /\ polls[1].queries = 1
    /\ Done(2) /\ polls[2].cancel = "open"
    /\ polls[2].inProgress = 1 /\ polls[2].queries = 2
    /\ polls[2].err = ErrOperationFailed

Init == InitConstruction /\ WaitIdle /\ RunsIdle

Next == CallNewClient \/ CallNewClientFromConfig

Spec == Init /\ [][Next]_vars

====
